---- MODULE Spec2Model ----
(***************************************************************************)
(* Model of torch/_inductor/kernel/mm_scaled_grouped.py:                   *)
(*   - the persistent grouped-GEMM Triton template                         *)
(*     (triton_scaled_grouped_mm_source), one process per program id;      *)
(*   - the lowering tuned_scaled_grouped_mm with grouped_mm_args,          *)
(*     can_use_triton_kernel, scaled_grouped_mm_configs and                *)
(*     early_config_prune.                                                 *)
(* Spec     : one kernel launch, all NUM_SMS programs interleaved.         *)
(* FairSpec : the same launch with every program eventually scheduled.     *)
(* HostSpec : one call of the lowering tuned_scaled_grouped_mm.            *)
(* PruneSpec: a history of calls of scaled_grouped_mm_configs and          *)
(*            early_config_prune in one process.                           *)
(***************************************************************************)
EXTENDS Integers, Sequences, FiniteSets, Bags, TLC

\* ---------------------------------------------------------------- bounds
\* largest group count G of a launch
MaxG == 3
\* largest static extent, and largest offset value, of a launch
MaxExtent == 3
\* largest BLOCK_M / BLOCK_N of a launch
MaxBlock == 2
\* largest NUM_SMS (number of programs) of a launch
MaxSMS == 2

VARIABLES
    kw,        \* template arguments of the launch (kwargs + config.kwargs)
    offsets,   \* contents of offsets_ptr (<<>> when the kernel has no offsets_ptr)
    layout,    \* dims of the output layout built by grouped_mm_args
    ctx,       \* per program id: its local variables and its position
    work,      \* bag of the (g, tile_m_idx, tile_n_idx) tiles processed so far
    stores,    \* bag of the unmasked lanes written by store_output so far
    low        \* one call of tuned_scaled_grouped_mm: arguments, environment, outcome

vars == <<kw, offsets, layout, ctx, work, stores, low>>

\* ------------------------------------------------------------ arithmetic
\* mutant of cdiv: the quotient rounded down
cdiv_floor(x, d) == x \div d

\* tl.cdiv(x, d)
cdiv(x, d) == (x + d - 1) \div d

\* monotone non-decreasing sequences of length n over 0..top
MonotoneSeqs(n, top) ==
    {s \in [1..n -> 0..top] : \A i \in 1..(n - 1) : s[i] <= s[i + 1]}

\* -------------------------------------------------------------- lowering
\* mutant of grouped_mm_args: a group axis also for a 3-D A with a 2-D B
grouped_mm_args_group_axis(m1_size, m2_size, offs_len) ==
    IF Len(m1_size) = 2
    THEN IF Len(m2_size) = 2
         THEN <<offs_len, m1_size[1], m2_size[2]>>
         ELSE <<m1_size[1], m2_size[Len(m2_size)]>>
    ELSE <<m1_size[1], m1_size[2], m2_size[Len(m2_size)]>>

\* dims of the FixedLayout built by grouped_mm_args when no layout is given;
\* m1_size, m2_size are the operand sizes, offs_len the length of offs
grouped_mm_args(m1_size, m2_size, offs_len) ==
    IF Len(m1_size) = 2
    THEN IF Len(m2_size) = 2
         THEN <<offs_len, m1_size[1], m2_size[2]>>
         ELSE <<m1_size[1], m2_size[Len(m2_size)]>>
    ELSE IF Len(m2_size) = 2
         THEN <<m1_size[2], m2_size[2]>>
         ELSE <<m1_size[1], m1_size[2], m2_size[Len(m2_size)]>>

\* the kwargs tuned_scaled_grouped_mm passes to the template; scale_a and
\* scale_b of a 3-D operand are contiguous [G, M] and [G, N] tensors
template_kwargs(m1_size, m2_size, offs_len, num_sms) ==
    LET dims ==
          IF Len(m1_size) = 2
          THEN IF Len(m2_size) = 2
               THEN [G |-> offs_len, M |-> m1_size[1], N |-> m2_size[2], K |-> m1_size[2],
                     M_IS_DYNAMIC |-> FALSE, N_IS_DYNAMIC |-> FALSE, K_IS_DYNAMIC |-> TRUE]
               ELSE [G |-> m2_size[1], M |-> m1_size[1], N |-> m2_size[3], K |-> m1_size[2],
                     M_IS_DYNAMIC |-> TRUE, N_IS_DYNAMIC |-> FALSE, K_IS_DYNAMIC |-> FALSE]
          ELSE IF Len(m2_size) = 2
               THEN [G |-> m1_size[1], M |-> m1_size[2], N |-> m2_size[2], K |-> m1_size[3],
                     M_IS_DYNAMIC |-> FALSE, N_IS_DYNAMIC |-> TRUE, K_IS_DYNAMIC |-> FALSE]
               ELSE [G |-> m1_size[1], M |-> m1_size[2], N |-> m2_size[3], K |-> m1_size[3],
                     M_IS_DYNAMIC |-> FALSE, N_IS_DYNAMIC |-> FALSE, K_IS_DYNAMIC |-> FALSE]
    IN  [G |-> dims.G, M |-> dims.M, N |-> dims.N, K |-> dims.K,
         A_IS_2D |-> Len(m1_size) = 2,
         B_IS_2D |-> Len(m2_size) = 2,
         M_IS_DYNAMIC |-> dims.M_IS_DYNAMIC,
         N_IS_DYNAMIC |-> dims.N_IS_DYNAMIC,
         K_IS_DYNAMIC |-> dims.K_IS_DYNAMIC,
         NUM_SMS |-> num_sms,
         SCALE_A_STRIDE_G |-> IF Len(m1_size) = 3 THEN m1_size[2] ELSE 0,
         SCALE_B_STRIDE_G |-> IF Len(m2_size) = 3 THEN m2_size[3] ELSE 0]

\* ------------------------------------------------------ configuration space
Config(kwargs, num_stages, num_warps) ==
    [kwargs |-> kwargs, num_stages |-> num_stages, num_warps |-> num_warps]

\* the list comprehension of _NV_CONFIGS, in its order
_NV_CONFIGS ==
    LET block_size_m == <<64, 128>>
        block_size_n == <<64, 128, 256>>
        block_size_k == <<64, 128, 256>>
        num_stages == <<3, 4>>
        num_warps == <<4, 8>>
    IN  [i \in 1..(2 * 3 * 3 * 2 * 2) |->
            Config([BLOCK_M |-> block_size_m[((i - 1) \div (3 * 3 * 2 * 2)) + 1],
                    BLOCK_N |-> block_size_n[(((i - 1) \div (3 * 2 * 2)) % 3) + 1],
                    BLOCK_K |-> block_size_k[(((i - 1) \div (2 * 2)) % 3) + 1],
                    NUM_CONSUMER_GROUPS |-> 1],
                   num_stages[(((i - 1) \div 2) % 2) + 1],
                   num_warps[((i - 1) % 2) + 1])]

\* the list comprehension of _AMD_CONFIGS, in its order
_AMD_CONFIGS ==
    LET block_size_m == <<32, 64, 128>>
        block_size_n == <<32, 64, 128, 256>>
        block_size_k == <<128, 256>>
        num_stages == <<1, 2>>
        warps_waves == <<<<4, 1>>, <<8, 2>>, <<16, 4>>>>
    IN  [i \in 1..(3 * 4 * 2 * 2 * 3) |->
            Config([BLOCK_M |-> block_size_m[((i - 1) \div (4 * 2 * 2 * 3)) + 1],
                    BLOCK_N |-> block_size_n[(((i - 1) \div (2 * 2 * 3)) % 4) + 1],
                    BLOCK_K |-> block_size_k[(((i - 1) \div (2 * 3)) % 2) + 1],
                    waves_per_eu |-> warps_waves[((i - 1) % 3) + 1][2],
                    matrix_instr_nonkdim |-> 16,
                    NUM_CONSUMER_GROUPS |-> 1],
                   num_stages[(((i - 1) \div 3) % 2) + 1],
                   warps_waves[((i - 1) % 3) + 1][1])]

\* mutant of scaled_grouped_mm_configs: the families exchanged
scaled_grouped_mm_configs_swapped(hip) == IF hip THEN _NV_CONFIGS ELSE _AMD_CONFIGS

\* hip: torch.version.hip is set
scaled_grouped_mm_configs(hip) == IF hip THEN _AMD_CONFIGS ELSE _NV_CONFIGS

RECURSIVE PowerOf2AtLeast(_, _)
PowerOf2AtLeast(p, n) == IF p >= n THEN p ELSE PowerOf2AtLeast(2 * p, n)

\* runtime_utils.next_power_of_2: the smallest power of 2 >= n; its bit
\* smearing maps 0 to 0
next_power_of_2(n) == IF n = 0 THEN 0 ELSE PowerOf2AtLeast(1, n)

\* mutant of num_consumer_groups: the NUM_CONSUMER_GROUPS entry of kwargs
num_consumer_groups_from_kwargs(config) == config.kwargs.NUM_CONSUMER_GROUPS

\* getattr(config, "num_consumer_groups", 0): an attribute of the Config
\* object, not an entry of config.kwargs
num_consumer_groups(config) ==
    IF "num_consumer_groups" \in DOMAIN config THEN config.num_consumer_groups ELSE 0

\* mutant of required_shared_memory: the B tiles alone, for both families
required_shared_memory_b_only(hip, BLOCK_M, BLOCK_N, BLOCK_K, num_stages) ==
    BLOCK_N * BLOCK_K * num_stages * 1

\* the shared-memory estimate of check 1 (dtsize = 1)
required_shared_memory(hip, BLOCK_M, BLOCK_N, BLOCK_K, num_stages) ==
    IF hip
    THEN BLOCK_N * BLOCK_K * num_stages * 1
    ELSE (BLOCK_M + BLOCK_N) * BLOCK_K * num_stages * 1

\* mutant of m_tile_too_small: half of M_PER_GROUP without rounding
m_tile_too_small_exact_half(BLOCK_M, M_PER_GROUP) ==
    BLOCK_M < 128 /\ 2 * BLOCK_M < M_PER_GROUP

\* the condition of check 3, "make sure we don't load M tiles that are too
\* small": // is the floor division
m_tile_too_small(BLOCK_M, M_PER_GROUP) ==
    BLOCK_M < 128 /\ BLOCK_M < (M_PER_GROUP \div 2)

\* the number (1..6, as in the comments of early_config_prune) of the first
\* check that drops the config, 0 if the config is appended to pruned_configs;
\* max_shared_memory is get_gpu_shared_memory(), num_sm is get_num_sms()
PruneVerdict(config, named_args, hip, max_shared_memory, num_sm) ==
    LET BLOCK_M == config.kwargs.BLOCK_M
        BLOCK_N == config.kwargs.BLOCK_N
        BLOCK_K == config.kwargs.BLOCK_K
        num_stages == config.num_stages
        num_warps == config.num_warps
        consumer_groups == num_consumer_groups(config)
        G == named_args.G
        M == named_args.M
        N == named_args.N
        M_PER_GROUP == IF named_args.M_IS_DYNAMIC THEN next_power_of_2(M) \div G ELSE M
        N_PER_GROUP == IF named_args.N_IS_DYNAMIC THEN next_power_of_2(N) \div G ELSE N
        use_warp_specialization == consumer_groups >= 1
        MIN_M_TILES == IF hip THEN 32 ELSE 64
        N_TILES == N_PER_GROUP \div BLOCK_N
        MIN_N_TILES == IF hip THEN 32 ELSE 64
    IN  IF required_shared_memory(hip, BLOCK_M, BLOCK_N, BLOCK_K, num_stages)
               > max_shared_memory
        THEN 1
        ELSE IF /\ ~use_warp_specialization
                /\ BLOCK_M > MIN_M_TILES
                /\ BLOCK_M > (M_PER_GROUP * 2)
        THEN 2
        ELSE IF m_tile_too_small(BLOCK_M, M_PER_GROUP)
        THEN 3
        ELSE IF /\ ~use_warp_specialization
                /\ BLOCK_N > MIN_N_TILES
                /\ G * M_PER_GROUP * N_TILES < num_sm
        THEN 4
        ELSE IF BLOCK_N < 128 /\ G * M_PER_GROUP * N_TILES > 2 * num_sm
        THEN 5
        ELSE IF /\ use_warp_specialization
                /\ \/ num_warps # 4
                   \/ /\ BLOCK_M \div consumer_groups < 64
                      /\ BLOCK_N \div consumer_groups < 256
        THEN 6
        ELSE 0

early_config_prune(configs, named_args, hip, max_shared_memory, num_sm) ==
    LET keep(config) == PruneVerdict(config, named_args, hip, max_shared_memory, num_sm) = 0
    IN  SelectSeq(configs, keep)

\* mutant of can_use_triton_kernel: the last dim of B tested where the code
\* tests its second-to-last dim
can_use_triton_kernel_last_dim(has_tma, m1_size, m2_size, offs, bias) ==
    IF ~has_tma THEN FALSE
    ELSE IF bias # "None" THEN FALSE
    ELSE IF Len(m1_size) = 2
         THEN IF Len(m2_size) = 2
              THEN offs # "None" /\ m2_size[Len(m2_size)] >= 32
              ELSE /\ offs # "None"
                   /\ m1_size[Len(m1_size)] >= 32
                   /\ m2_size[Len(m2_size)] >= 32
         ELSE IF Len(m2_size) = 2
              THEN offs # "None" /\ m2_size[Len(m2_size)] >= 32
              ELSE /\ offs = "None"
                   /\ m1_size[Len(m1_size)] >= 32
                   /\ m2_size[Len(m2_size)] >= 32

\* has_tma is has_triton_tma_device(); offs and bias are "None" or given
can_use_triton_kernel(has_tma, m1_size, m2_size, offs, bias) ==
    IF ~has_tma THEN FALSE
    ELSE IF bias # "None" THEN FALSE
    ELSE IF Len(m1_size) = 2
         THEN IF Len(m2_size) = 2
              THEN offs # "None" /\ m2_size[Len(m2_size)] >= 32
              ELSE /\ offs # "None"
                   /\ m1_size[Len(m1_size)] >= 32
                   /\ m2_size[Len(m2_size) - 1] >= 32
         ELSE IF Len(m2_size) = 2
              THEN offs # "None" /\ m2_size[Len(m2_size) - 1] >= 32
              ELSE /\ offs = "None"
                   /\ m1_size[Len(m1_size)] >= 32
                   /\ m2_size[Len(m2_size)] >= 32

\* mm_common._is_static_problem(layout)[1]: no dim of the layout is 0
is_nonzero(dims) == \A i \in 1..Len(dims) : dims[i] > 0

\* the assertions of grouped_mm_args that can fail for operands of rank 2 or
\* 3 and no layout argument: a 2-D/2-D problem needs offs
grouped_mm_args_asserts(m1_size, m2_size, offs) ==
    (Len(m1_size) = 2 /\ Len(m2_size) = 2) => offs # "None"

\* ---------------------------------------------------------------- kernel
Programs == 0..(kw.NUM_SMS - 1)

\* the locals of one program before the group loop: tidx = tl.program_id(0),
\* the end-offset cursors and iterated_tiles are 0
ProgramStart(pid) ==
    [pc |-> "for", tidx |-> pid, g |-> 0, iterated_tiles |-> 0,
     m_start_offset |-> 0, m_end_offset |-> 0, m_size |-> 0, m_scale_start_offset |-> 0,
     n_start_offset |-> 0, n_end_offset |-> 0, n_size |-> 0, n_scale_start_offset |-> 0,
     k_start_offset |-> 0, k_end_offset |-> 0, k_size |-> 0,
     num_m_tiles |-> 0, num_n_tiles |-> 0, num_tiles |-> 0,
     visited |-> <<>>, loads |-> <<>>]

\* mutant of LoadOffset: the first offset, whatever the group
LoadOffset_first(g) == offsets[1]

\* tl.load(offsets_ptr + g); offsets_ptr is 0-based, the sequence 1-based
LoadOffset(g) == offsets[g + 1]

\* the while condition of the tile loop
InGroup(c) ==
    /\ c.tidx >= c.iterated_tiles
    /\ c.tidx < c.iterated_tiles + c.num_tiles

\* mutant of NextTidx: the next tile instead of the next tile of this program
NextTidx_plus_one(c) == c.tidx + 1

\* tidx += NUM_SMS
NextTidx(c) == c.tidx + kw.NUM_SMS

\* mutant of NextIteratedTiles: assignment instead of accumulation
NextIteratedTiles_assign(c) == c.num_tiles

\* mutant of NextIteratedTiles: the M tiles of the group alone are counted
NextIteratedTiles_m_tiles(c) == c.iterated_tiles + c.num_m_tiles

\* iterated_tiles += num_tiles
NextIteratedTiles(c) == c.iterated_tiles + c.num_tiles

\* mutant of TileDecode: N split first
TileDecode_n_first(gidx, num_m_tiles) ==
    [tile_m_idx |-> gidx \div num_m_tiles, tile_n_idx |-> gidx % num_m_tiles]

\* "Split M first and N second": the decoding of the local tile index
TileDecode(gidx, num_m_tiles) ==
    [tile_m_idx |-> gidx % num_m_tiles, tile_n_idx |-> gidx \div num_m_tiles]

\* mutant of StoreMask: the rows of a partial tile are not masked
StoreMask_columns_only(offs_am, offs_bn, m_size, n_size) ==
    offs_bn < n_size

\* the store mask of one lane
StoreMask(offs_am, offs_bn, m_size, n_size) ==
    offs_am < m_size /\ offs_bn < n_size

\* mutant of StoreIndex: the group index passed in every variant
StoreIndex_always_grouped(c, offs_am, offs_bn) == <<c.g, offs_am, offs_bn>>

\* the output index store_output is given for one lane
StoreIndex(c, offs_am, offs_bn) ==
    LET idx_m == IF kw.M_IS_DYNAMIC THEN c.m_start_offset + offs_am ELSE offs_am
        idx_n == IF kw.N_IS_DYNAMIC THEN c.n_start_offset + offs_bn ELSE offs_bn
    IN  IF kw.M_IS_DYNAMIC \/ kw.N_IS_DYNAMIC
        THEN <<idx_m, idx_n>>
        ELSE <<c.g, idx_m, idx_n>>

\* mutant of ScaleAIndex: the per-group stride form also for a 2-D A
ScaleAIndex_stride_only(c, offs_am) == c.g * kw.SCALE_A_STRIDE_G + offs_am

\* the element offsets from scale_a_ptr / scale_b_ptr read for one lane
ScaleAIndex(c, offs_am) ==
    (IF kw.A_IS_2D THEN c.m_scale_start_offset ELSE c.g * kw.SCALE_A_STRIDE_G) + offs_am

\* mutant of ScaleBIndex: the group's start left out for a 2-D B
ScaleBIndex_no_group_start(c, offs_bn) ==
    (IF kw.B_IS_2D THEN 0 ELSE c.g * kw.SCALE_B_STRIDE_G) + offs_bn

ScaleBIndex(c, offs_bn) ==
    (IF kw.B_IS_2D THEN c.n_scale_start_offset ELSE c.g * kw.SCALE_B_STRIDE_G) + offs_bn

\* the head of one iteration of "for g in tl.range(G)": the cursors move,
\* the sizes and, if m_size > 0, the tile counts of group g are computed
GroupEnter(pid) ==
    LET c == ctx[pid]
        m_end == IF kw.M_IS_DYNAMIC THEN LoadOffset(c.g) ELSE c.m_end_offset
        m_start == IF kw.M_IS_DYNAMIC THEN c.m_end_offset ELSE 0
        m_size == IF kw.M_IS_DYNAMIC THEN m_end - m_start ELSE kw.M
        m_scale == IF kw.M_IS_DYNAMIC THEN m_start
                   ELSE IF kw.A_IS_2D THEN c.g * kw.M ELSE c.m_scale_start_offset
        n_end == IF kw.N_IS_DYNAMIC THEN LoadOffset(c.g) ELSE c.n_end_offset
        n_start == IF kw.N_IS_DYNAMIC THEN c.n_end_offset ELSE 0
        n_size == IF kw.N_IS_DYNAMIC THEN n_end - n_start ELSE kw.N
        n_scale == IF kw.N_IS_DYNAMIC THEN n_start
                   ELSE IF kw.B_IS_2D THEN c.g * kw.N ELSE c.n_scale_start_offset
        k_end == IF kw.K_IS_DYNAMIC THEN LoadOffset(c.g) ELSE c.k_end_offset
        k_start == IF kw.K_IS_DYNAMIC THEN c.k_end_offset ELSE 0
        k_size == IF kw.K_IS_DYNAMIC THEN k_end - k_start ELSE kw.K
        num_m == cdiv(m_size, kw.BLOCK_M)
        num_n == cdiv(n_size, kw.BLOCK_N)
        head == [c EXCEPT !.m_start_offset = m_start, !.m_end_offset = m_end,
                          !.m_size = m_size, !.m_scale_start_offset = m_scale,
                          !.visited = Append(c.visited, c.g),
                          !.loads = IF kw.M_IS_DYNAMIC THEN Append(c.loads, c.g) ELSE c.loads]
    IN  /\ c.pc = "for"
        /\ c.g < kw.G
        /\ IF m_size > 0
           THEN ctx' = [ctx EXCEPT ![pid] =
                  [head EXCEPT !.pc = "while",
                      !.n_start_offset = n_start, !.n_end_offset = n_end,
                      !.n_size = n_size, !.n_scale_start_offset = n_scale,
                      !.k_start_offset = k_start, !.k_end_offset = k_end,
                      !.k_size = k_size,
                      !.num_m_tiles = num_m, !.num_n_tiles = num_n,
                      !.num_tiles = num_m * num_n,
                      !.loads = IF kw.N_IS_DYNAMIC \/ kw.K_IS_DYNAMIC
                                THEN Append(head.loads, c.g) ELSE head.loads]]
           ELSE ctx' = [ctx EXCEPT ![pid] = [head EXCEPT !.g = c.g + 1]]
        /\ UNCHANGED <<kw, offsets, layout, work, stores, low>>

\* one iteration of the while loop: one tile is decoded, computed, scaled and
\* stored under the mask, and tidx advances by NUM_SMS
ProcessTile(pid) ==
    LET c == ctx[pid]
        gidx == c.tidx - c.iterated_tiles
        t == TileDecode(gidx, c.num_m_tiles)
        offs_am == {t.tile_m_idx * kw.BLOCK_M + i : i \in 0..(kw.BLOCK_M - 1)}
        offs_bn == {t.tile_n_idx * kw.BLOCK_N + j : j \in 0..(kw.BLOCK_N - 1)}
        lanes == {[idx |-> StoreIndex(c, r, col), by |-> pid, g |-> c.g,
                   row |-> r, col |-> col,
                   scale_a |-> ScaleAIndex(c, r), scale_b |-> ScaleBIndex(c, col)] :
                       <<r, col>> \in {p \in offs_am \X offs_bn :
                                         StoreMask(p[1], p[2], c.m_size, c.n_size)}}
        \* the unmasked lanes of the two scale loads: local index and the
        \* element offset read
        scale_a_reads == {<<r, ScaleAIndex(c, r)>> : r \in {x \in offs_am : x < c.m_size}}
        scale_b_reads == {<<col, ScaleBIndex(c, col)>> :
                              col \in {x \in offs_bn : x < c.n_size}}
    IN  /\ c.pc = "while"
        /\ InGroup(c)
        /\ work' = work (+) SetToBag({[by |-> pid, tidx |-> c.tidx, g |-> c.g,
                                       iterated_tiles |-> c.iterated_tiles, gidx |-> gidx,
                                       tile_m_idx |-> t.tile_m_idx,
                                       tile_n_idx |-> t.tile_n_idx,
                                       num_m_tiles |-> c.num_m_tiles,
                                       num_n_tiles |-> c.num_n_tiles,
                                       scale_a_reads |-> scale_a_reads,
                                       scale_b_reads |-> scale_b_reads]})
        /\ stores' = stores (+) SetToBag(lanes)
        /\ ctx' = [ctx EXCEPT ![pid].tidx = NextTidx(c)]
        /\ UNCHANGED <<kw, offsets, layout, low>>

\* the while condition is false: iterated_tiles += num_tiles, next group
GroupLeave(pid) ==
    LET c == ctx[pid]
    IN  /\ c.pc = "while"
        /\ ~InGroup(c)
        /\ ctx' = [ctx EXCEPT ![pid] = [c EXCEPT !.pc = "for", !.g = c.g + 1,
                      !.iterated_tiles = NextIteratedTiles(c)]]
        /\ UNCHANGED <<kw, offsets, layout, work, stores, low>>

\* tl.range(G) is exhausted: the program returns
Exit(pid) ==
    LET c == ctx[pid]
    IN  /\ c.pc = "for"
        /\ c.g >= kw.G
        /\ ctx' = [ctx EXCEPT ![pid].pc = "done"]
        /\ UNCHANGED <<kw, offsets, layout, work, stores, low>>

\* the operand sizes of a launch with group count G and extents M, N, K
OperandSizes(a_is_2d, b_is_2d, G, M, N, K) ==
    [m1_size |-> IF a_is_2d THEN <<M, K>> ELSE <<G, M, K>>,
     m2_size |-> IF b_is_2d THEN <<K, N>> ELSE <<G, K, N>>]

\* a launch: operand ranks, sizes and offsets as tuned_scaled_grouped_mm
\* admits them (offs, of G elements, given unless both operands are 3-D, no
\* zero output dim), any BLOCK_M, BLOCK_N and NUM_SMS
Init ==
    \E a_is_2d \in BOOLEAN, b_is_2d \in BOOLEAN, G \in 1..MaxG,
       M \in 1..MaxExtent, N \in 1..MaxExtent, K \in 0..MaxExtent,
       BLOCK_M \in 1..MaxBlock, BLOCK_N \in 1..MaxBlock, num_sms \in 1..MaxSMS :
      \E offs \in (IF a_is_2d \/ b_is_2d THEN MonotoneSeqs(G, MaxExtent) ELSE {<<>>}) :
        LET sz == OperandSizes(a_is_2d, b_is_2d, G, M, N, K)
            args == template_kwargs(sz.m1_size, sz.m2_size, Len(offs), num_sms)
        IN  \* the dynamic extent is the last offset; a static K is not
            \* read by any step below and takes one value
            /\ args.M_IS_DYNAMIC => M = offs[G]
            /\ args.N_IS_DYNAMIC => N = offs[G]
            /\ K = (IF args.K_IS_DYNAMIC THEN offs[G] ELSE MaxExtent)
            /\ kw = [BLOCK_M |-> BLOCK_M, BLOCK_N |-> BLOCK_N] @@ args
            /\ offsets = offs
            /\ layout = grouped_mm_args(sz.m1_size, sz.m2_size, Len(offs))
            /\ ctx = [pid \in 0..(num_sms - 1) |-> ProgramStart(pid)]
            /\ work = EmptyBag
            /\ stores = EmptyBag
            /\ low = [pc |-> "launched"]

\* one step of program pid
Step(pid) ==
    \/ GroupEnter(pid)
    \/ ProcessTile(pid)
    \/ GroupLeave(pid)
    \/ Exit(pid)

Next ==
    \/ \E pid \in Programs : GroupEnter(pid)
    \/ \E pid \in Programs : ProcessTile(pid)
    \/ \E pid \in Programs : GroupLeave(pid)
    \/ \E pid \in Programs : Exit(pid)

Spec == Init /\ [][Next]_vars

\* every program of the grid is scheduled until it returns
FairSpec ==
    Spec /\ \A pid \in 0..(MaxSMS - 1) : WF_vars(pid \in Programs /\ Step(pid))

\* --------------------------------------------------------------- lowering
\* the values the arguments and the environment of a lowering are drawn from
HostG == {1, 4}

HostM == {0, 8, 128, 129}

HostK == {31, 32, 64}

HostN == {31, 32, 256}

\* get_gpu_shared_memory(): below, at and above the smallest estimate of
\* each family, and a limit no estimate exceeds
HostSharedMemory == {4095, 4096, 24576, 232448}

\* get_num_sms()
HostNumSms == {4, 132}

\* a call of tuned_scaled_grouped_mm with operands of rank 2 or 3 that agree
\* in G and K, offs "None" or a tensor of offs_len elements (no statement of
\* the lowering compares offs_len with the G of a 3-D operand), layout and
\* out_dtype not given
HostInit ==
    \E a_is_2d \in BOOLEAN, b_is_2d \in BOOLEAN,
       G \in HostG, M \in HostM, N \in HostN, K \in HostK,
       offs \in {"None", "offs"}, offs_len \in {0} \cup HostG,
       bias \in {"None", "bias"},
       has_tma \in BOOLEAN, use_aten \in BOOLEAN, hip \in BOOLEAN,
       max_shared_memory \in HostSharedMemory, num_sm \in HostNumSms :
        LET sz == OperandSizes(a_is_2d, b_is_2d, G, M, N, K)
        IN  /\ (offs = "None") <=> (offs_len = 0)
            /\ low = [pc |-> "call", G |-> G, M |-> M, N |-> N, K |-> K,
                      m1_size |-> sz.m1_size, m2_size |-> sz.m2_size,
                      offs |-> offs, offs_len |-> offs_len,
                      bias |-> bias, has_tma |-> has_tma, use_aten |-> use_aten,
                      hip |-> hip, max_shared_memory |-> max_shared_memory,
                      num_sm |-> num_sm]
            /\ kw = [NUM_SMS |-> 0]
            /\ offsets = <<>>
            /\ layout = <<>>
            /\ ctx = <<>>
            /\ work = EmptyBag
            /\ stores = EmptyBag

\* the whole lowering: grouped_mm_args, the reference choice, the gate, the
\* template kwargs, the pruned configs appended as choices, the allocator;
\* choices is the list the function hands to the selector; can_use is the
\* value of can_use_triton_kernel, which is called only if is_nonzero
tuned_scaled_grouped_mm ==
    /\ low.pc = "call"
    /\ IF ~grouped_mm_args_asserts(low.m1_size, low.m2_size, low.offs)
       THEN /\ low' = [pc |-> "raised"] @@ low
            /\ UNCHANGED layout
       ELSE LET dims == grouped_mm_args(low.m1_size, low.m2_size, low.offs_len)
                aten == IF low.use_aten THEN <<[choice |-> "aten"]>> ELSE <<>>
                nonzero == is_nonzero(dims)
                can_use == can_use_triton_kernel(low.has_tma, low.m1_size,
                                                 low.m2_size, low.offs, low.bias)
                kwargs == template_kwargs(low.m1_size, low.m2_size, low.offs_len,
                                          low.num_sm)
                pruned == IF nonzero /\ can_use
                          THEN early_config_prune(scaled_grouped_mm_configs(low.hip),
                                   kwargs, low.hip, low.max_shared_memory, low.num_sm)
                          ELSE <<>>
            IN  /\ layout' = dims
                /\ low' = [pc |-> "returned",
                           is_nonzero |-> nonzero,
                           can_use |-> can_use,
                           kwargs |-> IF nonzero /\ can_use THEN kwargs ELSE "none",
                           pruned |-> pruned,
                           choices |-> aten \o [i \in 1..Len(pruned) |->
                                          [choice |-> "triton", config |-> pruned[i]]],
                           allocator_set |-> low.has_tma] @@ low
    /\ UNCHANGED <<kw, offsets, ctx, work, stores>>

HostNext == tuned_scaled_grouped_mm

HostSpec == HostInit /\ [][HostNext]_vars

\* ------------------------------------------------------- reference values
\* what the launch is to compute, taken from the problem alone (offsets, kw),
\* not from any program's cursors

\* the least q with q * d >= x
Ceil(x, d) == CHOOSE q \in 0..x : q * d >= x /\ (q = 0 \/ (q - 1) * d < x)

Groups == 0..(kw.G - 1)

\* start of group g in the dynamic dimension: offsets[g-1], 0 for g = 0
RefStart(g) == IF g = 0 THEN 0 ELSE offsets[g]

RefSize(g) == offsets[g + 1] - RefStart(g)

RefMSize(g) == IF kw.M_IS_DYNAMIC THEN RefSize(g) ELSE kw.M

RefNSize(g) == IF kw.N_IS_DYNAMIC THEN RefSize(g) ELSE kw.N

RefMTiles(g) == Ceil(RefMSize(g), kw.BLOCK_M)

RefNTiles(g) == Ceil(RefNSize(g), kw.BLOCK_N)

\* the Cartesian-product enumeration of the work items
RefTiles ==
    {<<g, tm, tn>> \in Groups \X (0..MaxExtent) \X (0..MaxExtent) :
        tm < RefMTiles(g) /\ tn < RefNTiles(g)}

RECURSIVE TilesBefore(_)
\* number of tiles of groups 0..g-1
TilesBefore(g) ==
    IF g = 0 THEN 0 ELSE TilesBefore(g - 1) + RefMTiles(g - 1) * RefNTiles(g - 1)

TotalTiles == TilesBefore(kw.G)

Done(pid) == ctx[pid].pc = "done"

AllDone == \A pid \in Programs : Done(pid)

Items == BagToSet(work)

Triple(w) == <<w.g, w.tile_m_idx, w.tile_n_idx>>

\* number of tiles program pid has processed
Processed(pid) == Cardinality({w \in Items : w.by = pid})

\* every position of the output layout
Positions ==
    IF Len(layout) = 2
    THEN (0..(layout[1] - 1)) \X (0..(layout[2] - 1))
    ELSE (0..(layout[1] - 1)) \X (0..(layout[2] - 1)) \X (0..(layout[3] - 1))

Lanes == BagToSet(stores)

\* ------------------------------------------------------------------ claims

\* C1: simulating all NUM_SMS programs produces each work item
\* (g, tile_m_idx, tile_n_idx) of the Cartesian-product enumeration exactly
\* once: never an item outside it, never one twice, and once every program
\* has returned none is missing; zero-extent groups give no item and a
\* group whose extent is no multiple of the block still gives ceil tiles.
C1_TileEnumeration ==
    /\ \A w \in Items : CopiesIn(w, work) = 1 /\ Triple(w) \in RefTiles
    /\ \A w1, w2 \in Items : Triple(w1) = Triple(w2) => w1 = w2
    /\ AllDone => {Triple(w) : w \in Items} = RefTiles

\* a finished launch with a zero-extent group, a later group whose M extent
\* is no multiple of BLOCK_M and spans two M tiles, on two programs
C1_Witness ==
    /\ AllDone
    /\ kw.NUM_SMS = 2
    /\ kw.M_IS_DYNAMIC
    /\ kw.G = 2
    /\ RefMSize(0) = 0
    /\ RefMSize(1) = 3
    /\ kw.BLOCK_M = 2
    /\ \E w \in Items : w.g = 1 /\ w.tile_m_idx = 1

\* C2: every program returns, having visited the groups 0..G-1 once each in
\* increasing order, with iterated_tiles equal to the number of tiles of
\* the whole problem.
C2_Termination ==
    <>[](\A pid \in Programs :
            /\ Done(pid)
            /\ ctx[pid].visited = [i \in 1..kw.G |-> i - 1]
            /\ ctx[pid].iterated_tiles = TotalTiles)

\* a program that has returned after looping twice in the tile loop of one
\* group, in a problem of two groups with tiles in both
C2_Witness ==
    /\ AllDone
    /\ kw.G = 2
    /\ RefMTiles(0) * RefNTiles(0) > 0
    /\ RefMTiles(1) * RefNTiles(1) > 0
    /\ \E w1, w2 \in Items : w1.by = w2.by /\ w1.g = w2.g /\ w1.tidx # w2.tidx
    /\ \A pid \in Programs : ctx[pid].iterated_tiles = TotalTiles

\* C3: a program's tidx is its program id plus NUM_SMS times the number of
\* tiles it has processed, so it starts at the id and only grows, by
\* NUM_SMS; the tile of global index t is processed by program
\* t mod NUM_SMS and no other, once; and when all programs have returned the
\* numbers of tiles two programs processed differ by at most one.
C3_Stride ==
    /\ \A pid \in Programs : ctx[pid].tidx = pid + kw.NUM_SMS * Processed(pid)
    /\ \A w \in Items : w.by = w.tidx % kw.NUM_SMS
    /\ \A w1, w2 \in Items : w1.tidx = w2.tidx => w1 = w2
    /\ AllDone => /\ {w.tidx : w \in Items} = 0..(TotalTiles - 1)
                  /\ \A p, q \in Programs : Processed(p) - Processed(q) <= 1

\* two programs have returned from a problem with an odd number (at least
\* 3) of tiles: one processed one tile more than the other
C3_Witness ==
    /\ AllDone
    /\ kw.NUM_SMS = 2
    /\ TotalTiles >= 3
    /\ Processed(0) = Processed(1) + 1

\* C4: for every processed tile the local index is tidx - iterated_tiles,
\* iterated_tiles being the tiles of the earlier groups, it is decoded M
\* fastest (tile_m_idx = idx mod num_m_tiles, tile_n_idx = idx div
\* num_m_tiles), and the decoded indices are in range.
C4_Decode ==
    \A w \in Items :
        /\ w.iterated_tiles = TilesBefore(w.g)
        /\ w.gidx = w.tidx - w.iterated_tiles
        /\ w.num_m_tiles = RefMTiles(w.g)
        /\ w.num_n_tiles = RefNTiles(w.g)
        /\ w.tile_m_idx = w.gidx % w.num_m_tiles
        /\ w.tile_n_idx = w.gidx \div w.num_m_tiles
        /\ 0 <= w.tile_m_idx /\ w.tile_m_idx < w.num_m_tiles
        /\ 0 <= w.tile_n_idx /\ w.tile_n_idx < w.num_n_tiles

\* a processed tile of a group with 3 M tiles and 2 N tiles, decoded to the
\* last tile of both dimensions
C4_Witness ==
    \E w \in Items :
        /\ w.num_m_tiles = 3
        /\ w.num_n_tiles = 2
        /\ w.tile_m_idx = 2
        /\ w.tile_n_idx = 1
        /\ w.g = 1

\* C5: under every interleaving no output element is stored twice, by the
\* same or by another program, no lane outside its group's (m_size, n_size)
\* extent is stored, and once all programs have returned every element of
\* the output has been stored exactly once.
C5_StoreOnce ==
    /\ \A s \in Lanes :
          /\ CopiesIn(s, stores) = 1
          /\ s.row < RefMSize(s.g)
          /\ s.col < RefNSize(s.g)
          /\ s.idx \in Positions
    /\ \A s1, s2 \in Lanes : s1.idx = s2.idx => s1 = s2
    /\ AllDone => {s.idx : s \in Lanes} = Positions

\* both programs have stored, into a problem of two groups whose last M tile
\* is partial, and have returned
C5_Witness ==
    /\ AllDone
    /\ kw.NUM_SMS = 2
    /\ kw.G = 2
    /\ kw.M_IS_DYNAMIC
    /\ kw.BLOCK_M = 2
    /\ RefMSize(0) = 1
    /\ RefMSize(1) = 1
    /\ \E s1, s2 \in Lanes : s1.by = 0 /\ s2.by = 1

\* ----------------------------------------------------- claims on the lowering
A2D == Len(low.m1_size) = 2

B2D == Len(low.m2_size) = 2

Returned == low.pc = "returned"

\* generated kernels were considered: the guard of the kernel branch
Considered == Returned /\ low.is_nonzero /\ low.can_use

TritonChoices == {i \in 1..Len(low.choices) : low.choices[i].choice = "triton"}

\* the table of the gate as the claim C6 states it, K the contraction size
\* and N the number of output columns of the call
GateTableClaimed ==
    IF A2D
    THEN IF B2D THEN low.offs # "None" /\ low.N >= 32
         ELSE low.offs # "None" /\ low.K >= 32 /\ low.N >= 32
    ELSE IF B2D THEN low.offs # "None" /\ low.N >= 32
         ELSE low.offs = "None" /\ low.K >= 32 /\ low.N >= 32

\* the table with the rows of a single 2-D operand testing K alone
GateTableAmended ==
    IF A2D
    THEN IF B2D THEN low.offs # "None" /\ low.N >= 32
         ELSE low.offs # "None" /\ low.K >= 32
    ELSE IF B2D THEN low.offs # "None" /\ low.K >= 32
         ELSE low.offs = "None" /\ low.K >= 32 /\ low.N >= 32

\* C6 (as claimed): can_use_triton_kernel is true exactly when there is
\* tensor-descriptor support, no bias, and the claimed table holds
\* (2-D/3-D: offsets, K >= 32 and N >= 32; 3-D/2-D: offsets and N >= 32).
C6_GateTableClaimed ==
    (Returned /\ low.is_nonzero) =>
        (low.can_use <=> (low.has_tma /\ low.bias = "None" /\ GateTableClaimed))

\* C6 (amended): can_use_triton_kernel is true exactly when there is
\* tensor-descriptor support, no bias, and: 2-D/2-D: offsets and N >= 32;
\* 2-D/3-D: offsets and K >= 32; 3-D/2-D: offsets and K >= 32; 3-D/3-D: no
\* offsets, K >= 32 and N >= 32.
C6_GateTable ==
    (Returned /\ low.is_nonzero) =>
        (low.can_use <=> (low.has_tma /\ low.bias = "None" /\ GateTableAmended))

\* the gate accepts a 2-D A with a 3-D B at K = 32 although N = 31
C6_Witness ==
    /\ Returned
    /\ low.is_nonzero
    /\ A2D /\ ~B2D
    /\ low.offs # "None"
    /\ low.K = 32
    /\ low.N = 31
    /\ low.can_use

\* C7 (as claimed): the call never fails; generated kernels are among the
\* choices only if the gate is true; and if the gate is false or the pruner
\* returns nothing, the choices are the reference implementation alone.
C7_ReferenceAlone ==
    /\ low.pc # "raised"
    /\ Returned =>
        /\ TritonChoices # {} => (low.is_nonzero /\ low.can_use)
        /\ (~(low.is_nonzero /\ low.can_use) \/ low.pruned = <<>>)
               => low.choices = <<[choice |-> "aten"]>>

\* C8 (as claimed): a 3-D A [G, M, K] with a 2-D B, no offsets, K >= 32 and
\* N >= 32 (tensor-descriptor support, no bias) is eligible and its layout
\* is [G, M, N].
C8_Eligible3D2DClaimed ==
    (/\ Returned
     /\ ~A2D /\ B2D
     /\ low.offs = "None"
     /\ low.K >= 32 /\ low.N >= 32
     /\ low.has_tma /\ low.bias = "None")
        => (low.can_use /\ layout = <<low.G, low.M, low.N>>)

\* C8 (amended): a 3-D A [G, M, K] with a 2-D B [K, N] and no offsets is not
\* eligible, whatever K and N, and its layout is [M, N]; a 3-D A with a 3-D
\* B [G, K, N], no offsets, K >= 32 and N >= 32 (tensor-descriptor support,
\* no bias) is eligible and its layout is [G, M, N].
C8_Eligible3D ==
    Returned =>
        /\ (~A2D /\ B2D /\ low.offs = "None")
              => (~low.can_use /\ layout = <<low.M, low.N>>)
        /\ (/\ ~A2D /\ ~B2D
            /\ low.offs = "None"
            /\ low.K >= 32 /\ low.N >= 32
            /\ low.has_tma /\ low.bias = "None")
              => (low.can_use /\ layout = <<low.G, low.M, low.N>>)

\* scenario A has been lowered: G = 4, A [4, 128, 64], B 2-D, no offsets
C8_Witness ==
    /\ Returned
    /\ ~A2D /\ B2D
    /\ low.offs = "None"
    /\ low.G = 4 /\ low.M = 128 /\ low.K = 64 /\ low.N = 256
    /\ low.has_tma /\ low.bias = "None"
    /\ layout = <<128, 256>>

\* the estimate as the claim C10 gives it
EstimateClaimed(config) ==
    IF low.hip
    THEN config.kwargs.BLOCK_N * config.kwargs.BLOCK_K * config.num_stages
    ELSE (config.kwargs.BLOCK_M + config.kwargs.BLOCK_N) * config.kwargs.BLOCK_K
             * config.num_stages

Family == scaled_grouped_mm_configs(low.hip)

Survives(config) == \E i \in 1..Len(low.pruned) : low.pruned[i] = config

\* C10 (as claimed): early_config_prune rejects a config if and only if its
\* estimate exceeds the limit.
C10_RejectIffOverLimit ==
    Considered =>
        \A i \in 1..Len(Family) :
            ~Survives(Family[i]) <=> EstimateClaimed(Family[i]) > low.max_shared_memory

\* C10 (amended): early_config_prune rejects every config whose estimate
\* exceeds the limit, and every config it returns is a config of the family
\* with an estimate within the limit.
C10_RejectOverLimit ==
    Considered =>
        /\ \A i \in 1..Len(Family) :
              EstimateClaimed(Family[i]) > low.max_shared_memory => ~Survives(Family[i])
        /\ \A i \in 1..Len(low.pruned) :
              /\ \E j \in 1..Len(Family) : Family[j] = low.pruned[i]
              /\ EstimateClaimed(low.pruned[i]) <= low.max_shared_memory

\* a pruning that dropped a config over the limit and kept one whose
\* estimate is exactly the limit
C10_Witness ==
    /\ Considered
    /\ \E i \in 1..Len(Family) :
          /\ EstimateClaimed(Family[i]) > low.max_shared_memory
          /\ ~Survives(Family[i])
    /\ \E i \in 1..Len(low.pruned) :
          EstimateClaimed(low.pruned[i]) = low.max_shared_memory

\* ------------------------------------------------- claims on the launch (2)

\* C9 (as claimed): with a 2-D A and a 2-D B, M is the dynamic dimension,
\* the output has no group axis, and output row i is computed with scale
\* row i and the group whose offset bucket holds i.
C9_Dynamic2D2DClaimed ==
    (kw.A_IS_2D /\ kw.B_IS_2D /\ Lanes # {}) =>
        /\ kw.M_IS_DYNAMIC
        /\ Len(layout) = 2
        /\ \A s \in Lanes :
              /\ s.scale_a = s.idx[1]
              /\ RefStart(s.g) <= s.idx[1] /\ s.idx[1] < offsets[s.g + 1]

\* C9 (amended): with a 2-D A [M_total, K] and a 3-D B [G, K, N], M is the
\* dynamic dimension, the output is [M_total, N] without group axis, and
\* output row i is computed with scale row i and the group whose offset
\* bucket holds i; with a 2-D A [M, K_total] and a 2-D B [K_total, N], K is
\* the dynamic dimension, the output is [G, M, N], and row r of group g is
\* computed with scale row g * M + r.
C9_DynamicDimension ==
    /\ (kw.A_IS_2D /\ ~kw.B_IS_2D) =>
          /\ kw.M_IS_DYNAMIC /\ ~kw.N_IS_DYNAMIC /\ ~kw.K_IS_DYNAMIC
          /\ Len(offsets) = kw.G
          /\ layout = <<offsets[kw.G], kw.N>>
          /\ \A s \in Lanes :
                /\ s.scale_a = s.idx[1]
                /\ RefStart(s.g) <= s.idx[1] /\ s.idx[1] < offsets[s.g + 1]
    /\ (kw.A_IS_2D /\ kw.B_IS_2D) =>
          /\ kw.K_IS_DYNAMIC /\ ~kw.M_IS_DYNAMIC /\ ~kw.N_IS_DYNAMIC
          /\ Len(offsets) = kw.G
          /\ layout = <<kw.G, kw.M, kw.N>>
          /\ \A s \in Lanes :
                /\ s.idx = <<s.g, s.row, s.col>>
                /\ s.scale_a = s.g * kw.M + s.row

\* a 2-D/2-D launch of two groups has stored row 1 of group 1
C9_Witness ==
    /\ kw.A_IS_2D /\ kw.B_IS_2D
    /\ kw.G = 2
    /\ \E s \in Lanes : s.g = 1 /\ s.row = 1 /\ s.scale_a = kw.M + 1

\* ------------------------------------------------------ claims on the pruner
\* the family-specific floor of the oversize checks
Floor == IF low.hip THEN 32 ELSE 64

\* the per-group extents the pruner derives from the problem
MPerGroup ==
    IF low.kwargs.M_IS_DYNAMIC
    THEN next_power_of_2(low.kwargs.M) \div low.kwargs.G
    ELSE low.kwargs.M

NPerGroup ==
    IF low.kwargs.N_IS_DYNAMIC
    THEN next_power_of_2(low.kwargs.N) \div low.kwargs.G
    ELSE low.kwargs.N

MOversized(config) ==
    config.kwargs.BLOCK_M > Floor /\ config.kwargs.BLOCK_M > 2 * MPerGroup

NOversized(config) ==
    /\ config.kwargs.BLOCK_N > Floor
    /\ low.kwargs.G * MPerGroup * (NPerGroup \div config.kwargs.BLOCK_N) < low.num_sm

\* c and d differ at most in num_warps (and the waves_per_eu paired with it)
SameTile(c, d) ==
    /\ c.kwargs.BLOCK_M = d.kwargs.BLOCK_M
    /\ c.kwargs.BLOCK_N = d.kwargs.BLOCK_N
    /\ c.kwargs.BLOCK_K = d.kwargs.BLOCK_K
    /\ c.num_stages = d.num_stages

\* C11 (as claimed): every config is treated as warp-specialized, so every
\* surviving config has num_warps = 4 and has BLOCK_M >= 64 or BLOCK_N >= 256.
C11_WarpSpecializedClaimed ==
    Considered =>
        \A i \in 1..Len(low.pruned) :
            /\ low.pruned[i].num_warps = 4
            /\ low.pruned[i].kwargs.BLOCK_M >= 64 \/ low.pruned[i].kwargs.BLOCK_N >= 256

\* C11 (amended): no generated config is treated as warp-specialized
\* (NUM_CONSUMER_GROUPS = 1 is an entry of kwargs, the pruner reads an
\* attribute of the config and finds none): the oversize checks on BLOCK_M
\* and BLOCK_N are always applied and the partitioning check never, so no
\* surviving config is M- or N-oversized, and whether a config survives does
\* not depend on its num_warps.
C11_NotWarpSpecialized ==
    Considered =>
        /\ \A i \in 1..Len(low.pruned) :
              ~MOversized(low.pruned[i]) /\ ~NOversized(low.pruned[i])
        /\ \A i, j \in 1..Len(Family) :
              SameTile(Family[i], Family[j])
                  => (Survives(Family[i]) <=> Survives(Family[j]))

\* a pruning of the alternate family that kept a config of 16 warps whose
\* BLOCK_M and BLOCK_N are 32, and dropped an M-oversized config of 4 warps
C11_Witness ==
    /\ Considered
    /\ \E i \in 1..Len(low.pruned) :
          /\ low.pruned[i].num_warps = 16
          /\ low.pruned[i].kwargs.BLOCK_M = 32
          /\ low.pruned[i].kwargs.BLOCK_N = 32
    /\ \E i \in 1..Len(Family) :
          /\ Family[i].num_warps = 4
          /\ MOversized(Family[i])
          /\ EstimateClaimed(Family[i]) <= low.max_shared_memory
          /\ ~Survives(Family[i])

\* C12: a config whose BLOCK_M exceeds the family floor (64 generic, 32
\* alternate) and exceeds 2 * M_per_group is not in the output of
\* early_config_prune, M_per_group being next_power_of_2(M) div G when M is
\* dynamic and M otherwise.
C12_MOversizedPruned ==
    Considered =>
        \A i \in 1..Len(Family) : MOversized(Family[i]) => ~Survives(Family[i])

\* M_per_group = 8 from a dynamic M = 8 and G = 1: the configs of BLOCK_M =
\* 128 within the shared-memory limit are dropped, others are kept
C12_Witness ==
    /\ Considered
    /\ low.kwargs.M_IS_DYNAMIC
    /\ MPerGroup = 8
    /\ low.pruned # <<>>
    /\ \E i \in 1..Len(Family) :
          /\ Family[i].kwargs.BLOCK_M = 128
          /\ EstimateClaimed(Family[i]) <= low.max_shared_memory
          /\ ~Survives(Family[i])

\* the check that drops a config of the family in this pruning, 0 if none
Verdict(config) ==
    PruneVerdict(config, low.kwargs, low.hip, low.max_shared_memory, low.num_sm)

\* C20 (as claimed): a config with BLOCK_M < 128 and BLOCK_M < M_per_group / 2,
\* the half taken exactly, is rejected.
C20_ExactHalfClaimed ==
    Considered =>
        \A i \in 1..Len(Family) :
            (/\ Family[i].kwargs.BLOCK_M < 128
             /\ 2 * Family[i].kwargs.BLOCK_M < MPerGroup) => ~Survives(Family[i])

\* C20 (amended): a config with BLOCK_M < 128 and BLOCK_M < M_per_group div 2,
\* the half rounded down, is rejected, and the M-undersize check rejects no
\* config outside that condition.
C20_FloorHalf ==
    Considered =>
        \A i \in 1..Len(Family) :
            LET small == /\ Family[i].kwargs.BLOCK_M < 128
                         /\ Family[i].kwargs.BLOCK_M < MPerGroup \div 2
            IN  /\ small => ~Survives(Family[i])
                /\ Verdict(Family[i]) = 3 => small

\* M_per_group = 129: a config of BLOCK_M = 64 is kept, a config of BLOCK_M =
\* 32 is dropped by the M-undersize check
C20_Witness ==
    /\ Considered
    /\ MPerGroup = 129
    /\ \E i \in 1..Len(low.pruned) : low.pruned[i].kwargs.BLOCK_M = 64
    /\ \E i \in 1..Len(Family) :
          Family[i].kwargs.BLOCK_M = 32 /\ Verdict(Family[i]) = 3

\* ------------------------------------------ claims on the configuration space
\* the cross products C13 names, as sets
GenericCrossProduct ==
    {[kwargs |-> [BLOCK_M |-> m, BLOCK_N |-> n, BLOCK_K |-> k,
                  NUM_CONSUMER_GROUPS |-> 1],
      num_stages |-> s, num_warps |-> w] :
        m \in {64, 128}, n \in {64, 128, 256}, k \in {64, 128, 256},
        s \in {3, 4}, w \in {4, 8}}

AlternateCrossProduct ==
    {[kwargs |-> [BLOCK_M |-> m, BLOCK_N |-> n, BLOCK_K |-> k,
                  waves_per_eu |-> ww[2], matrix_instr_nonkdim |-> 16,
                  NUM_CONSUMER_GROUPS |-> 1],
      num_stages |-> s, num_warps |-> ww[1]] :
        m \in {32, 64, 128}, n \in {32, 64, 128, 256}, k \in {128, 256},
        s \in {1, 2}, ww \in {<<4, 1>>, <<8, 2>>, <<16, 4>>}}

\* the list holds every element of the set, each once, and nothing else
Enumerates(list, set, count) ==
    /\ Len(list) = count
    /\ Cardinality(set) = count
    /\ {list[i] : i \in 1..Len(list)} = set

\* C13: scaled_grouped_mm_configs returns exactly the cross product of its
\* family's parameter sets, no combination twice and none missing: 72 configs
\* for the generic family, 144 for the alternate family, every config with
\* NUM_CONSUMER_GROUPS = 1.
C13_CrossProduct ==
    /\ IF low.hip
       THEN Enumerates(Family, AlternateCrossProduct, 144)
       ELSE Enumerates(Family, GenericCrossProduct, 72)
    /\ \A i \in 1..Len(Family) : Family[i].kwargs.NUM_CONSUMER_GROUPS = 1

\* a lowering on the alternate platform has pruned the 144 configs and kept
\* one of (num_warps, waves_per_eu) = (16, 4)
C13_Witness ==
    /\ Considered
    /\ low.hip
    /\ Len(Family) = 144
    /\ \E i \in 1..Len(low.pruned) :
          /\ low.pruned[i].num_warps = 16
          /\ low.pruned[i].kwargs.waves_per_eu = 4
          /\ low.pruned[i].kwargs.matrix_instr_nonkdim = 16

\* ------------------------------------------------- repeated pruning calls
\* the number of calls of one history
MaxCalls == 3

\* the named_args early_config_prune reads
PruneProblems ==
    [G : HostG, M : HostM, N : HostN,
     M_IS_DYNAMIC : BOOLEAN, N_IS_DYNAMIC : {FALSE}]
        \cup [G : HostG, M : HostM, N : HostN,
              M_IS_DYNAMIC : {FALSE}, N_IS_DYNAMIC : {TRUE}]

\* mutant of configs_after_prune: the rejected configs removed in place
configs_after_prune_in_place(configs, named_args, hip, max_shared_memory, num_sm) ==
    early_config_prune(configs, named_args, hip, max_shared_memory, num_sm)

\* the list passed to early_config_prune once it has returned: the loop reads
\* configs and each config, and appends to the new list pruned_configs only
configs_after_prune(configs, named_args, hip, max_shared_memory, num_sm) ==
    configs

\* a process that has imported the module: module_configs is the list
\* object of its platform (_AMD_CONFIGS or _NV_CONFIGS), pc the last call,
\* configs the last value scaled_grouped_mm_configs returned, pruned the last
\* value early_config_prune returned
PruneInit ==
    \E hip \in BOOLEAN :
        /\ low = [pc |-> "imported", hip |-> hip, calls |-> 0,
                  module_configs |-> scaled_grouped_mm_configs(hip),
                  configs |-> <<>>, pruned |-> <<>>]
        /\ kw = [NUM_SMS |-> 0]
        /\ offsets = <<>>
        /\ layout = <<>>
        /\ ctx = <<>>
        /\ work = EmptyBag
        /\ stores = EmptyBag

\* scaled_grouped_mm_configs(): the module's list object itself is returned
call_scaled_grouped_mm_configs ==
    /\ low.calls < MaxCalls
    /\ low' = [low EXCEPT !.pc = "scaled_grouped_mm_configs",
                          !.calls = low.calls + 1,
                          !.configs = low.module_configs]
    /\ UNCHANGED <<kw, offsets, layout, ctx, work, stores>>

\* early_config_prune(scaled_grouped_mm_configs(), named_args), as at the
\* call site: the argument is the module's list object
call_early_config_prune ==
    /\ low.calls < MaxCalls
    /\ \E named_args \in PruneProblems,
          max_shared_memory \in HostSharedMemory, num_sm \in HostNumSms :
          low' = [low EXCEPT
                     !.pc = "early_config_prune",
                     !.calls = low.calls + 1,
                     !.configs = low.module_configs,
                     !.pruned = early_config_prune(low.module_configs, named_args,
                                    low.hip, max_shared_memory, num_sm),
                     !.module_configs = configs_after_prune(low.module_configs,
                                    named_args, low.hip, max_shared_memory, num_sm)]
    /\ UNCHANGED <<kw, offsets, layout, ctx, work, stores>>

PruneNext ==
    \/ call_scaled_grouped_mm_configs
    \/ call_early_config_prune

PruneSpec == PruneInit /\ [][PruneNext]_vars

\* the position of a config in a list without duplicates
IndexIn(list, config) == CHOOSE k \in 1..Len(list) : list[k] = config

\* sub holds elements of list only, in the order of list
Subsequence(sub, list) ==
    /\ \A i \in 1..Len(sub) : \E k \in 1..Len(list) : list[k] = sub[i]
    /\ \A i \in 1..(Len(sub) - 1) :
          IndexIn(list, sub[i]) < IndexIn(list, sub[i + 1])

\* C14: after any sequence of scaled_grouped_mm_configs and
\* early_config_prune calls, the list of the platform and every list
\* scaled_grouped_mm_configs returned are the sequence the module was
\* imported with, and every result of early_config_prune is a subsequence of
\* it in its order.
C14_ConfigsUnchanged ==
    /\ low.module_configs = scaled_grouped_mm_configs(low.hip)
    /\ low.calls > 0 => low.configs = scaled_grouped_mm_configs(low.hip)
    /\ Subsequence(low.pruned, scaled_grouped_mm_configs(low.hip))

\* a third call, after a pruning that dropped some configs and kept others
C14_Witness ==
    /\ low.calls = 3
    /\ low.pruned # <<>>
    /\ Len(low.pruned) < Len(low.module_configs)
    /\ low.configs = low.module_configs

\* ------------------------------------------------- claims on the launch (3)
\* neither M nor N is dynamic
Grouped == ~kw.M_IS_DYNAMIC /\ ~kw.N_IS_DYNAMIC

\* C15: for each of the four operand patterns the output store carries a
\* group index exactly when neither M nor N is dynamic (2-D/2-D and 3-D/3-D),
\* and the layout of grouped_mm_args has a leading group axis, 3 dimensions,
\* exactly then, 2 dimensions otherwise.
C15_GroupIndex ==
    /\ Grouped <=> (kw.A_IS_2D <=> kw.B_IS_2D)
    /\ Len(layout) = (IF Grouped THEN 3 ELSE 2)
    /\ Grouped => layout[1] = kw.G
    /\ \A s \in Lanes :
          /\ Len(s.idx) = Len(layout)
          /\ Grouped => s.idx[1] = s.g
          /\ ~Grouped =>
                s.idx = <<(IF kw.M_IS_DYNAMIC THEN RefStart(s.g) ELSE 0) + s.row,
                          (IF kw.N_IS_DYNAMIC THEN RefStart(s.g) ELSE 0) + s.col>>

\* a 3-D/3-D launch has stored row 1 of group 1 under the group index 1
C15_Witness ==
    /\ ~kw.A_IS_2D /\ ~kw.B_IS_2D
    /\ Len(layout) = 3
    /\ \E s \in Lanes : s.g = 1 /\ s.row = 1 /\ s.idx = <<1, 1, s.col>>

\* the start of group g in the flattened rows of a 2-D A, columns of a 2-D B
GroupStartM(g) == IF kw.M_IS_DYNAMIC THEN RefStart(g) ELSE g * kw.M

GroupStartN(g) == IF kw.N_IS_DYNAMIC THEN RefStart(g) ELSE g * kw.N

\* C16: for every processed tile of group g the row scale of local row r is
\* read at group_start_M(g) + r when A is 2-D and at g * SCALE_A_STRIDE_G + r
\* when A is 3-D, the column scale of local column c at group_start_N(g) + c
\* when B is 2-D and at g * SCALE_B_STRIDE_G + c when B is 3-D; exactly the
\* rows r < m_size and the columns c < n_size of the tile are read.
C16_ScaleIndex ==
    \A w \in Items :
        LET rows == {r \in (w.tile_m_idx * kw.BLOCK_M)..((w.tile_m_idx + 1) * kw.BLOCK_M - 1) :
                        r < RefMSize(w.g)}
            cols == {c \in (w.tile_n_idx * kw.BLOCK_N)..((w.tile_n_idx + 1) * kw.BLOCK_N - 1) :
                        c < RefNSize(w.g)}
        IN  /\ w.scale_a_reads =
                  {<<r, (IF kw.A_IS_2D THEN GroupStartM(w.g)
                         ELSE w.g * kw.SCALE_A_STRIDE_G) + r>> : r \in rows}
            /\ w.scale_b_reads =
                  {<<c, (IF kw.B_IS_2D THEN GroupStartN(w.g)
                         ELSE w.g * kw.SCALE_B_STRIDE_G) + c>> : c \in cols}

\* a 3-D/2-D launch has processed a partial tile of group 1, which starts at
\* a positive column: column 0 read at offsets[0], row 0 at the group stride
C16_Witness ==
    /\ ~kw.A_IS_2D /\ kw.B_IS_2D
    /\ \E w \in Items :
          /\ w.g = 1
          /\ RefStart(1) > 0
          /\ <<0, RefStart(1)>> \in w.scale_b_reads
          /\ <<0, kw.SCALE_A_STRIDE_G>> \in w.scale_a_reads
          /\ Cardinality(w.scale_b_reads) < kw.BLOCK_N

\* the cursors of every program agree with the offsets: the group a program
\* computed sizes for last has start offsets[g-1] (0 for g = 0), end
\* offsets[g] and size offsets[g] - offsets[g-1] in the dynamic dimension,
\* and the program has read the offsets in strictly increasing g
CursorsAgree ==
    \A pid \in Programs :
        LET c == ctx[pid]
            n == Len(c.visited)
        IN  /\ (kw.M_IS_DYNAMIC /\ n > 0) =>
                  /\ c.m_start_offset = RefStart(c.visited[n])
                  /\ c.m_end_offset = offsets[c.visited[n] + 1]
                  /\ c.m_size = RefSize(c.visited[n])
                  /\ c.m_scale_start_offset = RefStart(c.visited[n])
            /\ (kw.N_IS_DYNAMIC /\ c.pc = "while") =>
                  /\ c.n_start_offset = RefStart(c.g)
                  /\ c.n_end_offset = offsets[c.g + 1]
                  /\ c.n_size = RefSize(c.g)
            /\ (kw.K_IS_DYNAMIC /\ c.pc = "while") =>
                  /\ c.k_start_offset = RefStart(c.g)
                  /\ c.k_end_offset = offsets[c.g + 1]
                  /\ c.k_size = RefSize(c.g)
            /\ \A i \in 1..(Len(c.loads) - 1) : c.loads[i] < c.loads[i + 1]

\* no step moves an end-offset cursor back or takes back a read
CursorsAdvance ==
    \A pid \in Programs :
        /\ ctx'[pid].m_end_offset >= ctx[pid].m_end_offset
        /\ ctx'[pid].n_end_offset >= ctx[pid].n_end_offset
        /\ ctx'[pid].k_end_offset >= ctx[pid].k_end_offset
        /\ Len(ctx'[pid].loads) >= Len(ctx[pid].loads)
        /\ SubSeq(ctx'[pid].loads, 1, Len(ctx[pid].loads)) = ctx[pid].loads

\* C17: in every program, for every group whose sizes are computed, the
\* start offset of the dynamic dimension is offsets[g-1] (0 for g = 0) and
\* its size offsets[g] - offsets[g-1], also after skipped zero-extent groups;
\* offsets[g] is read in strictly increasing g, no offset is read again, and
\* the end-offset cursors never decrease.
C17_Cursors == [](CursorsAgree) /\ [][CursorsAdvance]_vars

\* offsets <<1, 1, 2>> with M dynamic: a program has skipped the empty group
\* 1 and is in the tile loop of group 2, which starts at row 1
C17_Witness ==
    /\ kw.M_IS_DYNAMIC
    /\ offsets = <<1, 1, 2>>
    /\ \E pid \in Programs :
          /\ ctx[pid].pc = "while"
          /\ ctx[pid].g = 2
          /\ ctx[pid].visited = <<0, 1, 2>>
          /\ ctx[pid].loads = <<0, 1, 2>>
          /\ ctx[pid].m_start_offset = 1
          /\ ctx[pid].m_size = 1

\* the number of tiles of group g
TilesOf(g) == RefMTiles(g) * RefNTiles(g)

\* C19: at the start of every group iteration g, in every program,
\* iterated_tiles is the sum of num_m_tiles * num_n_tiles over the groups
\* 0..g-1 (0 for a zero-extent group), whatever the program id and the tiles
\* the program processed, and tidx >= iterated_tiles; after group g is
\* finished or skipped, tidx >= iterated_tiles + num_tiles(g).
C19_IteratedTiles ==
    \A pid \in Programs :
        LET c == ctx[pid]
        IN  /\ c.iterated_tiles = TilesBefore(c.g)
            /\ c.tidx >= c.iterated_tiles
            /\ (c.pc \in {"for", "done"} /\ c.g > 0) =>
                  c.tidx >= TilesBefore(c.g - 1) + TilesOf(c.g - 1)
            /\ \A q \in Programs :
                  ctx[q].g = c.g => ctx[q].iterated_tiles = c.iterated_tiles

\* program 1 starts the iteration of group 2 without having processed a
\* tile: group 0 had one tile, group 1 was empty and skipped
C19_Witness ==
    /\ kw.G = 3
    /\ kw.M_IS_DYNAMIC
    /\ kw.NUM_SMS = 2
    /\ TilesOf(0) = 1
    /\ RefMSize(1) = 0
    /\ ctx[1].pc = "for"
    /\ ctx[1].g = 2
    /\ ctx[1].iterated_tiles = 1
    /\ ctx[1].tidx = 1
    /\ Processed(1) = 0

\* ------------------------------------------------ claims on the lowering (2)
\* C18 (as claimed): whenever generated kernels are instantiated, at most
\* one of M_IS_DYNAMIC, N_IS_DYNAMIC, K_IS_DYNAMIC is true, the operand ranks
\* fix which, some flag is true exactly when offsets are supplied, and the
\* group count G passed to the kernel is the length of the offsets, so the
\* kernel reads offsets at existing indices 0..G-1 only.
C18_FlagsAndGroupCount ==
    (Considered /\ low.pruned # <<>>) =>
        /\ ~(low.kwargs.M_IS_DYNAMIC /\ low.kwargs.N_IS_DYNAMIC)
        /\ ~(low.kwargs.M_IS_DYNAMIC /\ low.kwargs.K_IS_DYNAMIC)
        /\ ~(low.kwargs.N_IS_DYNAMIC /\ low.kwargs.K_IS_DYNAMIC)
        /\ low.kwargs.M_IS_DYNAMIC <=> (A2D /\ ~B2D)
        /\ low.kwargs.N_IS_DYNAMIC <=> (~A2D /\ B2D)
        /\ low.kwargs.K_IS_DYNAMIC <=> (A2D /\ B2D)
        /\ (\/ low.kwargs.M_IS_DYNAMIC
            \/ low.kwargs.N_IS_DYNAMIC
            \/ low.kwargs.K_IS_DYNAMIC) <=> (low.offs # "None")
        /\ low.offs # "None" => low.kwargs.G = low.offs_len
====
